---- MODULE Spec2Model ----
(***************************************************************************)
(* The validator package of gologic/components (src/validator/validator.go)*)
(*                                                                         *)
(* Text is modelled as Go sees it: a string is a sequence of one-character *)
(* strings, so that strings.Split, strings.Count, len, the character       *)
(* classes of the regular expressions, strconv and fmt.Sprintf are computed*)
(* character by character.  The package state is the two package-level     *)
(* maps validators and messages; AddValidator and Validate are the two     *)
(* operations.  A Go run-time panic (index out of range) is an outcome of  *)
(* its own: a call that panics returns nothing.                            *)
(***************************************************************************)
EXTENDS Integers, Sequences, FiniteSets, TLC

VARIABLES
    validators,  \* rule name -> the predicate registered under it
    messages,    \* rule name -> message template
    lastAdd,     \* arguments of the latest AddValidator call, <<>> before the first
    inputs,      \* first argument of the Validate call
    rules,       \* second argument of the Validate call
    order,       \* the order in which the range over rules visited the fields in that call
    outcome,     \* "none" | "returned" | "panic"
    success,     \* first return value of that call (when it returned)
    errors,      \* second return value of that call (when it returned)
    calls        \* the predicate invocations of line 315 made by that call, in order

vars == <<validators, messages, lastAdd, inputs, rules, order, outcome, success, errors, calls>>

-----------------------------------------------------------------------------
(* Bounds of the model *)

\* longest value of the form xx...x submitted to Validate
MaxLen == 7

-----------------------------------------------------------------------------
(* Characters and the Go library functions the package uses *)

Digit == {"0", "1", "2", "3", "4", "5", "6", "7", "8", "9"}

Lower == {"a", "b", "c", "d", "e", "f", "g", "h", "i", "j", "k", "l", "m",
          "n", "o", "p", "q", "r", "s", "t", "u", "v", "w", "x", "y", "z"}

Upper == {"A", "B", "C", "D", "E", "F", "G", "H", "I", "J", "K", "L", "M",
          "N", "O", "P", "Q", "R", "S", "T", "U", "V", "W", "X", "Y", "Z"}

Letter == Lower \cup Upper

DigitValue(c) ==
    CASE c = "0" -> 0 [] c = "1" -> 1 [] c = "2" -> 2 [] c = "3" -> 3
      [] c = "4" -> 4 [] c = "5" -> 5 [] c = "6" -> 6 [] c = "7" -> 7
      [] c = "8" -> 8 [] c = "9" -> 9

Tail0(s, n) == SubSeq(s, n + 1, Len(s))

AllIn(s, class) == \A i \in 1..Len(s) : s[i] \in class

\* regexp "^[class]+$"
MatchPlus(s, class) == Len(s) > 0 /\ AllIn(s, class)

FirstIndex(s, c) == CHOOSE i \in 1..Len(s) : s[i] = c /\ \A j \in 1..(i - 1) : s[j] # c

\* strings.Split(s, sep) for a one-character separator: always at least one part
RECURSIVE Split(_, _)
Split(s, sep) ==
    IF \A i \in 1..Len(s) : s[i] # sep
    THEN <<s>>
    ELSE LET i == FirstIndex(s, sep)
         IN  <<SubSeq(s, 1, i - 1)>> \o Split(Tail0(s, i), sep)

\* strings.Count(s, "%s"): non-overlapping occurrences
RECURSIVE CountPlaceholders(_)
CountPlaceholders(s) ==
    IF Len(s) < 2 THEN 0
    ELSE IF s[1] = "%" /\ s[2] = "s" THEN 1 + CountPlaceholders(Tail0(s, 2))
    ELSE CountPlaceholders(Tail0(s, 1))

RECURSIVE DecimalValue(_)
DecimalValue(s) ==
    IF Len(s) = 0 THEN 0
    ELSE 10 * DecimalValue(SubSeq(s, 1, Len(s) - 1)) + DigitValue(s[Len(s)])

RECURSIVE Pow10(_)
Pow10(n) == IF n = 0 THEN 1 ELSE 10 * Pow10(n - 1)

\* 2^15, the bound of strconv.ParseInt(_, 10, 16)
Int16Limit == 32768

Signed(s) == Len(s) > 0 /\ s[1] \in {"+", "-"}
Unsigned(s) == IF Signed(s) THEN Tail0(s, 1) ELSE s
Sign(s) == IF Len(s) > 0 /\ s[1] = "-" THEN -1 ELSE 1

\* strconv.ParseInt(s, 10, bitSize) for bitSize 16 and 64: an optional sign, then
\* one or more decimal digits, and the value in range.  The model holds no digit
\* string longer than 9, so every value fits 64 bits.
ParseInt(s, bitSize) ==
    LET d == Unsigned(s)
        syntaxOK == MatchPlus(d, Digit)
        v == IF syntaxOK /\ Len(d) <= 9 THEN Sign(s) * DecimalValue(d) ELSE 0
        inRange == IF bitSize = 16
                   THEN Len(d) <= 9 /\ v >= -Int16Limit /\ v < Int16Limit
                   ELSE Len(d) <= 9
    IN  [err |-> ~(syntaxOK /\ inRange), val |-> v]

\* strconv.ParseFloat(s, 64) on decimal literals: an optional sign, digits with at
\* most one point and at least one digit.  The value is num / 10^scale.  The
\* model holds no exponent, hexadecimal, underscore, infinity or NaN literal,
\* and no literal of more than 9 digits.
DecimalFloat(sign, ip, fp, wellFormed) ==
    [err |-> ~wellFormed,
     num |-> IF wellFormed THEN sign * DecimalValue(ip \o fp) ELSE 0,
     scale |-> IF wellFormed THEN Len(fp) ELSE 0]

FloatParts(sign, parts) ==
    DecimalFloat(sign, parts[1], IF Len(parts) = 2 THEN parts[2] ELSE <<>>,
                 /\ Len(parts) <= 2
                 /\ \A k \in 1..Len(parts) : AllIn(parts[k], Digit)
                 /\ Len(parts[1]) + (IF Len(parts) = 2 THEN Len(parts[2]) ELSE 0) \in 1..9)

ParseFloat(s) == FloatParts(Sign(s), Split(Unsigned(s), "."))

FloatLeq(a, b) == a.num * Pow10(b.scale) <= b.num * Pow10(a.scale)
FloatEq(a, b) == a.num * Pow10(b.scale) = b.num * Pow10(a.scale)

\* strconv.ParseBool accepts exactly these
BoolLiterals ==
    {<<"1">>, <<"t">>, <<"T">>, <<"T", "R", "U", "E">> (* TRUE *), <<"t", "r", "u", "e">> (* true *), <<"T", "r", "u", "e">> (* True *),
     <<"0">>, <<"f">>, <<"F">>, <<"F", "A", "L", "S", "E">> (* FALSE *), <<"f", "a", "l", "s", "e">> (* false *), <<"F", "a", "l", "s", "e">> (* False *)}

\* Go's s[i] on a slice, i counted from 0: out of range is a run-time panic
IndexInRange(s, i) == 0 <= i /\ i < Len(s)
At(s, i) == s[i + 1]

\* the value of a predicate call: "pass" (true), "fail" (false) or "panic"
Bool(b) == IF b THEN "pass" ELSE "fail"
Not(r) == IF r = "panic" THEN "panic" ELSE IF r = "pass" THEN "fail" ELSE "pass"
\* a && b: b is evaluated only when a is true
AndThen(a, b) == IF a = "pass" THEN b ELSE a

\* the "%!(EXTRA string=a, string=b)" that fmt appends for unused arguments
RECURSIVE ExtraArgs(_, _)
ExtraArgs(args, argNum) ==
    IF argNum >= Len(args) THEN <<>>
    ELSE <<"s", "t", "r", "i", "n", "g", "=">> (* string= *) \o At(args, argNum)
         \o (IF argNum + 1 < Len(args) THEN <<",", " ">> (* ,  *) ELSE <<>>)
         \o ExtraArgs(args, argNum + 1)

\* fmt.Sprintf(format, args...) with every argument a string.  A "%" starts a
\* verb: "%%" prints a percent sign, "%s" and "%v" print the next argument, any
\* other verb prints "%!verb(string=arg)", a verb with no argument left prints
\* "%!verb(MISSING)", a "%" ending the format prints "%!(NOVERB)", and unused
\* arguments are appended as "%!(EXTRA ...)".  Flags, widths, precisions and
\* the verbs q, x, X are not modelled: no template of the model uses them.
RECURSIVE doPrintf(_, _, _)
doPrintf(format, args, argNum) ==
    IF Len(format) = 0
    THEN IF argNum < Len(args)
         THEN <<"%", "!", "(", "E", "X", "T", "R", "A", " ">> (* %!(EXTRA  *) \o ExtraArgs(args, argNum) \o <<")">>
         ELSE <<>>
    ELSE IF format[1] # "%"
    THEN <<format[1]>> \o doPrintf(Tail0(format, 1), args, argNum)
    ELSE IF Len(format) = 1
    THEN <<"%", "!", "(", "N", "O", "V", "E", "R", "B", ")">> (* %!(NOVERB) *) \o doPrintf(<<>>, args, argNum)
    ELSE LET verb == format[2]
             rest == Tail0(format, 2)
         IN  IF verb = "%"
             THEN <<"%">> \o doPrintf(rest, args, argNum)
             ELSE IF argNum >= Len(args)
             THEN <<"%", "!">> (* %! *) \o <<verb>> \o <<"(", "M", "I", "S", "S", "I", "N", "G", ")">> (* (MISSING) *) \o doPrintf(rest, args, argNum)
             ELSE IF verb \in {"s", "v"}
             THEN At(args, argNum) \o doPrintf(rest, args, argNum + 1)
             ELSE <<"%", "!">> (* %! *) \o <<verb>> \o <<"(", "s", "t", "r", "i", "n", "g", "=">> (* (string= *) \o At(args, argNum) \o <<")">>
                  \o doPrintf(rest, args, argNum + 1)

Sprintf(format, args) == doPrintf(format, args, 0)

-----------------------------------------------------------------------------
(* The package *)

stringInSlice(needle, haystack) == \E i \in 1..Len(haystack) : haystack[i] = needle

\* Go's fieldValue, fieldExists := m[key]
Exists(m, key) == key \in DOMAIN m
Get(m, key) == IF key \in DOMAIN m THEN m[key] ELSE <<>>

validateAccepted(name, value, ins, params) ==
    Bool(stringInSlice(value, <<<<"1">>, <<"t", "r", "u", "e">> (* true *), <<"y", "e", "s">> (* yes *), <<"o", "n">> (* on *)>>))

validateAlpha(name, value, ins, params) == Bool(MatchPlus(value, Letter))

validateAlphaDash(name, value, ins, params) ==
    Bool(MatchPlus(value, Letter \cup Digit \cup {"-", "_"}))

validateAlphaNumeric(name, value, ins, params) == Bool(MatchPlus(value, Letter \cup Digit))

validateBoolean(name, value, ins, params) == Bool(value \in BoolLiterals)

validateChars(name, value, ins, params) ==
    IF Len(params) = 1
    THEN LET charCount == ParseInt(At(params, 0), 16)
         IN  Bool(~charCount.err /\ Len(value) = charCount.val)
    ELSE "fail"

\* reads params[1] of a slice it has just checked to hold one element
validateMinChars(name, value, ins, params) ==
    IF Len(params) = 1
    THEN IF ~IndexInRange(params, 1) THEN "panic"
         ELSE LET minChars == ParseInt(At(params, 1), 16)
              IN  Bool(~minChars.err /\ Len(value) >= minChars.val)
    ELSE "fail"

validateMaxChars(name, value, ins, params) ==
    IF Len(params) = 1
    THEN IF ~IndexInRange(params, 1) THEN "panic"
         ELSE LET maxChars == ParseInt(At(params, 1), 16)
              IN  Bool(~maxChars.err /\ Len(value) <= maxChars.val)
    ELSE "fail"

validateCharsBetween(name, value, ins, params) ==
    IF Len(params) = 2
    THEN AndThen(validateMinChars(name, value, ins, <<At(params, 0)>>),
                 validateMaxChars(name, value, ins, <<At(params, 1)>>))
    ELSE "fail"

validateConfirmed(name, value, ins, params) ==
    LET key == name \o <<"_", "c", "o", "n", "f", "i", "r", "m", "a", "t", "i", "o", "n">> (* _confirmation *)
    IN  Bool(Exists(ins, key) /\ Get(ins, key) = value)

validateSame(name, value, ins, params) ==
    IF Len(params) = 1
    THEN Bool(Exists(ins, At(params, 0)) /\ Get(ins, At(params, 0)) = value)
    ELSE "fail"

validateDifferent(name, value, ins, params) == Not(validateSame(name, value, ins, params))

validateDigits(name, value, ins, params) ==
    IF Len(params) = 1 /\ MatchPlus(value, Digit)
    THEN LET digitCount == ParseInt(At(params, 0), 16)
         IN  Bool(~digitCount.err /\ Len(value) = digitCount.val)
    ELSE "fail"

validateMinDigits(name, value, ins, params) ==
    IF Len(params) = 1 /\ MatchPlus(value, Digit)
    THEN LET minDigits == ParseInt(At(params, 0), 16)
         IN  Bool(~minDigits.err /\ Len(value) >= minDigits.val)
    ELSE "fail"

validateMaxDigits(name, value, ins, params) ==
    IF Len(params) = 1 /\ MatchPlus(value, Digit)
    THEN LET maxDigits == ParseInt(At(params, 0), 16)
         IN  Bool(~maxDigits.err /\ Len(value) <= maxDigits.val)
    ELSE "fail"

validateDigitsBetween(name, value, ins, params) ==
    IF Len(params) = 2
    THEN AndThen(validateMinDigits(name, value, ins, <<At(params, 0)>>),
                 validateMaxDigits(name, value, ins, <<At(params, 1)>>))
    ELSE "fail"

\* "^[a-zA-Z0-9._%+-]+@[a-zA-Z0-9.-]+\.[a-zA-Z]{2,}$"
validateEmail(name, value, ins, params) ==
    Bool(\E at \in 1..Len(value) : \E dot \in (at + 1)..Len(value) :
            /\ value[at] = "@"
            /\ value[dot] = "."
            /\ MatchPlus(SubSeq(value, 1, at - 1), Letter \cup Digit \cup {".", "_", "%", "+", "-"})
            /\ MatchPlus(SubSeq(value, at + 1, dot - 1), Letter \cup Digit \cup {".", "-"})
            /\ Len(value) - dot >= 2
            /\ AllIn(Tail0(value, dot), Letter))

\* an "in" that looks at the first listed value only
validateIn_FirstOnly(name, value, ins, params) ==
    Bool(Len(params) > 0 /\ params[1] = value)

validateIn(name, value, ins, params) == Bool(stringInSlice(value, params))

validateInteger(name, value, ins, params) == Bool(~ParseInt(value, 64).err)

validateMinValue(name, value, ins, params) ==
    IF Len(params) = 1
    THEN LET minValue == ParseFloat(At(params, 0))
             floatValue == ParseFloat(value)
         IN  Bool(~minValue.err /\ ~floatValue.err /\ FloatLeq(minValue, floatValue))
    ELSE "fail"

validateMaxValue(name, value, ins, params) ==
    IF Len(params) = 1
    THEN LET maxValue == ParseFloat(At(params, 0))
             floatValue == ParseFloat(value)
         IN  Bool(~maxValue.err /\ ~floatValue.err /\ FloatLeq(floatValue, maxValue))
    ELSE "fail"

validateNotIn(name, value, ins, params) == Bool(~stringInSlice(value, params))

validateNumeric(name, value, ins, params) == Bool(~ParseFloat(value).err)

\* regexp.Compile(pattern) and MatchString for a pattern of letters and digits
\* only, which compiles and matches the values that contain it.  The model
\* holds no pattern with a metacharacter.
Contains(value, pattern) ==
    \E i \in 0..(Len(value) - Len(pattern)) : SubSeq(value, i + 1, i + Len(pattern)) = pattern

validateRegex(name, value, ins, params) ==
    IF Len(params) = 1
    THEN Bool(Contains(value, At(params, 0)))
    ELSE "fail"

validateRequired(name, value, ins, params) == Bool(value # <<>>)

\* strconv.ParseFloat(_, 16): a bitSize other than 32 parses as 64
validateValue(name, value, ins, params) ==
    IF Len(params) = 1
    THEN LET expectedValue == ParseFloat(At(params, 0))
             actualValue == ParseFloat(value)
         IN  Bool(~expectedValue.err /\ ~actualValue.err /\ FloatEq(expectedValue, actualValue))
    ELSE "fail"

validateValueBetween(name, value, ins, params) ==
    IF Len(params) = 2
    THEN AndThen(validateMinValue(name, value, ins, <<At(params, 0)>>),
                 validateMaxValue(name, value, ins, <<At(params, 1)>>))
    ELSE "fail"

\* var validators: the built-in table.  The rules whose predicates call the DNS
\* resolver, time.Parse or net.ParseIP (active_url, date, ip) and url are left
\* out of the model; no rule string of the model names them.
BuiltinValidators ==
    (<<"a", "c", "c", "e", "p", "t", "e", "d">> (* accepted *)
          :> "validateAccepted")
    @@ (<<"a", "l", "p", "h", "a">> (* alpha *)
          :> "validateAlpha")
    @@ (<<"a", "l", "p", "h", "a", "_", "d", "a", "s", "h">> (* alpha_dash *)
          :> "validateAlphaDash")
    @@ (<<"a", "l", "p", "h", "a", "_", "n", "u", "m">> (* alpha_num *)
          :> "validateAlphaNumeric")
    @@ (<<"b", "o", "o", "l", "e", "a", "n">> (* boolean *)
          :> "validateBoolean")
    @@ (<<"c", "h", "a", "r", "s">> (* chars *)
          :> "validateChars")
    @@ (<<"c", "h", "a", "r", "s", "_", "b", "e", "t", "w", "e", "e", "n">> (* chars_between *)
          :> "validateCharsBetween")
    @@ (<<"c", "o", "n", "f", "i", "r", "m", "e", "d">> (* confirmed *)
          :> "validateConfirmed")
    @@ (<<"d", "i", "f", "f", "e", "r", "e", "n", "t">> (* different *)
          :> "validateDifferent")
    @@ (<<"d", "i", "g", "i", "t", "s">> (* digits *)
          :> "validateDigits")
    @@ (<<"d", "i", "g", "i", "t", "s", "_", "b", "e", "t", "w", "e", "e", "n">> (* digits_between *)
          :> "validateDigitsBetween")
    @@ (<<"e", "m", "a", "i", "l">> (* email *)
          :> "validateEmail")
    @@ (<<"i", "n">> (* in *)
          :> "validateIn")
    @@ (<<"i", "n", "t", "e", "g", "e", "r">> (* integer *)
          :> "validateInteger")
    @@ (<<"m", "a", "x", "_", "c", "h", "a", "r", "s">> (* max_chars *)
          :> "validateMaxChars")
    @@ (<<"m", "a", "x", "_", "d", "i", "g", "i", "t", "s">> (* max_digits *)
          :> "validateMaxDigits")
    @@ (<<"m", "a", "x", "_", "v", "a", "l", "u", "e">> (* max_value *)
          :> "validateMaxValue")
    @@ (<<"m", "i", "n", "_", "c", "h", "a", "r", "s">> (* min_chars *)
          :> "validateMinChars")
    @@ (<<"m", "i", "n", "_", "d", "i", "g", "i", "t", "s">> (* min_digits *)
          :> "validateMinDigits")
    @@ (<<"m", "i", "n", "_", "v", "a", "l", "u", "e">> (* min_value *)
          :> "validateMinValue")
    @@ (<<"n", "o", "t", "_", "i", "n">> (* not_in *)
          :> "validateNotIn")
    @@ (<<"n", "u", "m", "e", "r", "i", "c">> (* numeric *)
          :> "validateNumeric")
    @@ (<<"r", "e", "g", "e", "x">> (* regex *)
          :> "validateRegex")
    @@ (<<"r", "e", "q", "u", "i", "r", "e", "d">> (* required *)
          :> "validateRequired")
    @@ (<<"s", "a", "m", "e">> (* same *)
          :> "validateSame")
    @@ (<<"v", "a", "l", "u", "e">> (* value *)
          :> "validateValue")
    @@ (<<"v", "a", "l", "u", "e", "_", "b", "e", "t", "w", "e", "e", "n">> (* value_between *)
          :> "validateValueBetween")

\* var messages: the built-in templates of the same rules
BuiltinMessages ==
    (<<"a", "c", "c", "e", "p", "t", "e", "d">> (* accepted *)
          :> <<"T", "h", "e", " ", "%", "s", " ", "m", "u", "s", "t", " ", "b", "e", " ", "a", "c", "c", "e", "p", "t", "e", "d", ".">> (* The %s must be accepted. *))
    @@ (<<"a", "l", "p", "h", "a">> (* alpha *)
          :> <<"T", "h", "e", " ", "%", "s", " ", "m", "a", "y", " ", "o", "n", "l", "y", " ", "c", "o", "n", "t", "a", "i", "n", " ", "l", "e", "t", "t", "e", "r", "s", ".">> (* The %s may only contain letters. *))
    @@ (<<"a", "l", "p", "h", "a", "_", "d", "a", "s", "h">> (* alpha_dash *)
          :> <<"T", "h", "e", " ", "%", "s", " ", "m", "a", "y", " ", "o", "n", "l", "y", " ", "c", "o", "n", "t", "a", "i", "n", " ", "l", "e", "t", "t", "e", "r", "s", ",", " ", "n", "u", "m", "b", "e", "r", "s", ",", " ", "a", "n", "d", " ", "d", "a", "s", "h", "e", "s", ".">> (* The %s may only contain letters, numbers, and dashes. *))
    @@ (<<"a", "l", "p", "h", "a", "_", "n", "u", "m">> (* alpha_num *)
          :> <<"T", "h", "e", " ", "%", "s", " ", "m", "a", "y", " ", "o", "n", "l", "y", " ", "c", "o", "n", "t", "a", "i", "n", " ", "l", "e", "t", "t", "e", "r", "s", " ", "a", "n", "d", " ", "n", "u", "m", "b", "e", "r", "s", ".">> (* The %s may only contain letters and numbers. *))
    @@ (<<"b", "o", "o", "l", "e", "a", "n">> (* boolean *)
          :> <<"T", "h", "e", " ", "%", "s", " ", "f", "i", "e", "l", "d", " ", "m", "u", "s", "t", " ", "b", "e", " ", "t", "r", "u", "e", " ", "o", "r", " ", "f", "a", "l", "s", "e", ".">> (* The %s field must be true or false. *))
    @@ (<<"c", "h", "a", "r", "s">> (* chars *)
          :> <<"T", "h", "e", " ", "%", "s", " ", "f", "i", "e", "l", "d", " ", "m", "u", "s", "t", " ", "h", "a", "v", "e", " ", "%", "s", " ", "c", "h", "a", "r", "a", "c", "t", "e", "r", "s", ".">> (* The %s field must have %s characters. *))
    @@ (<<"c", "h", "a", "r", "s", "_", "b", "e", "t", "w", "e", "e", "n">> (* chars_between *)
          :> <<"T", "h", "e", " ", "%", "s", " ", "f", "i", "e", "l", "d", " ", "m", "u", "s", "t", " ", "h", "a", "v", "e", " ", "b", "e", "t", "w", "e", "e", "n", " ", "%", "s", " ", "c", "h", "a", "r", "a", "c", "t", "e", "r", "s", ".">> (* The %s field must have between %s characters. *))
    @@ (<<"c", "o", "n", "f", "i", "r", "m", "e", "d">> (* confirmed *)
          :> <<"T", "h", "e", " ", "%", "s", " ", "c", "o", "n", "f", "i", "r", "m", "a", "t", "i", "o", "n", " ", "d", "o", "e", "s", " ", "n", "o", "t", " ", "m", "a", "t", "c", "h", ".">> (* The %s confirmation does not match. *))
    @@ (<<"d", "i", "f", "f", "e", "r", "e", "n", "t">> (* different *)
          :> <<"T", "h", "e", " ", "%", "s", " ", "a", "n", "d", " ", "%", "s", " ", "m", "u", "s", "t", " ", "b", "e", " ", "d", "i", "f", "f", "e", "r", "e", "n", "t", ".">> (* The %s and %s must be different. *))
    @@ (<<"d", "i", "g", "i", "t", "s">> (* digits *)
          :> <<"T", "h", "e", " ", "%", "s", " ", "m", "u", "s", "t", " ", "h", "a", "v", "e", " ", "%", "s", " ", "d", "i", "g", "i", "t", "s", ".">> (* The %s must have %s digits. *))
    @@ (<<"d", "i", "g", "i", "t", "s", "_", "b", "e", "t", "w", "e", "e", "n">> (* digits_between *)
          :> <<"T", "h", "e", " ", "%", "s", " ", "m", "u", "s", "t", " ", "h", "a", "v", "e", " ", "b", "e", "t", "w", "e", "e", "n", " ", "%", "s", " ", "a", "n", "d", " ", "%", "s", " ", "d", "i", "g", "i", "t", "s", ".">> (* The %s must have between %s and %s digits. *))
    @@ (<<"e", "m", "a", "i", "l">> (* email *)
          :> <<"T", "h", "e", " ", "%", "s", " ", "m", "u", "s", "t", " ", "b", "e", " ", "a", " ", "v", "a", "l", "i", "d", " ", "e", "m", "a", "i", "l", " ", "a", "d", "d", "r", "e", "s", "s", ".">> (* The %s must be a valid email address. *))
    @@ (<<"i", "n">> (* in *)
          :> <<"T", "h", "e", " ", "s", "e", "l", "e", "c", "t", "e", "d", " ", "%", "s", " ", "i", "s", " ", "i", "n", "v", "a", "l", "i", "d", ".">> (* The selected %s is invalid. *))
    @@ (<<"m", "a", "x", "_", "c", "h", "a", "r", "s">> (* max_chars *)
          :> <<"T", "h", "e", " ", "%", "s", " ", "m", "u", "s", "t", " ", "h", "a", "v", "e", " ", "f", "e", "w", "e", "r", " ", "t", "h", "a", "n", " ", "%", "s", " ", "c", "h", "a", "r", "a", "c", "t", "e", "r", "s", ".">> (* The %s must have fewer than %s characters. *))
    @@ (<<"m", "a", "x", "_", "d", "i", "g", "i", "t", "s">> (* max_digits *)
          :> <<"T", "h", "e", " ", "%", "s", " ", "m", "u", "s", "t", " ", "h", "a", "v", "e", " ", "f", "e", "w", "e", "r", " ", "t", "h", "a", "n", " ", "%", "s", " ", "d", "i", "g", "i", "t", "s", ".">> (* The %s must have fewer than %s digits. *))
    @@ (<<"m", "a", "x", "_", "v", "a", "l", "u", "e">> (* max_value *)
          :> <<"T", "h", "e", " ", "%", "s", " ", "m", "u", "s", "t", " ", "b", "e", " ", "l", "e", "s", "s", " ", "t", "h", "a", "n", " ", "%", "s", ".">> (* The %s must be less than %s. *))
    @@ (<<"m", "i", "n", "_", "c", "h", "a", "r", "s">> (* min_chars *)
          :> <<"T", "h", "e", " ", "%", "s", " ", "m", "u", "s", "t", " ", "h", "a", "v", "e", " ", "m", "o", "r", "e", " ", "t", "h", "a", "n", " ", "%", "s", " ", "c", "h", "a", "r", "a", "c", "t", "e", "r", "s", ".">> (* The %s must have more than %s characters. *))
    @@ (<<"m", "i", "n", "_", "d", "i", "g", "i", "t", "s">> (* min_digits *)
          :> <<"T", "h", "e", " ", "%", "s", " ", "m", "u", "s", "t", " ", "h", "a", "v", "e", " ", "m", "o", "r", "e", " ", "t", "h", "a", "n", " ", "%", "s", " ", "d", "i", "g", "i", "t", "s", ".">> (* The %s must have more than %s digits. *))
    @@ (<<"m", "i", "n", "_", "v", "a", "l", "u", "e">> (* min_value *)
          :> <<"T", "h", "e", " ", "%", "s", " ", "m", "u", "s", "t", " ", "b", "e", " ", "g", "r", "e", "a", "t", "e", "r", " ", "t", "h", "a", "n", " ", "%", "s", ".">> (* The %s must be greater than %s. *))
    @@ (<<"i", "n", "t", "e", "g", "e", "r">> (* integer *)
          :> <<"T", "h", "e", " ", "%", "s", " ", "m", "u", "s", "t", " ", "b", "e", " ", "a", "n", " ", "i", "n", "t", "e", "g", "e", "r", ".">> (* The %s must be an integer. *))
    @@ (<<"n", "o", "t", "_", "i", "n">> (* not_in *)
          :> <<"T", "h", "e", " ", "s", "e", "l", "e", "c", "t", "e", "d", " ", "%", "s", " ", "i", "s", " ", "i", "n", "v", "a", "l", "i", "d", ".">> (* The selected %s is invalid. *))
    @@ (<<"n", "u", "m", "e", "r", "i", "c">> (* numeric *)
          :> <<"T", "h", "e", " ", "%", "s", " ", "m", "u", "s", "t", " ", "b", "e", " ", "a", " ", "n", "u", "m", "b", "e", "r", ".">> (* The %s must be a number. *))
    @@ (<<"r", "e", "g", "e", "x">> (* regex *)
          :> <<"T", "h", "e", " ", "%", "s", " ", "f", "o", "r", "m", "a", "t", " ", "i", "s", " ", "i", "n", "v", "a", "l", "i", "d", ".">> (* The %s format is invalid. *))
    @@ (<<"r", "e", "q", "u", "i", "r", "e", "d">> (* required *)
          :> <<"T", "h", "e", " ", "%", "s", " ", "f", "i", "e", "l", "d", " ", "i", "s", " ", "r", "e", "q", "u", "i", "r", "e", "d", ".">> (* The %s field is required. *))
    @@ (<<"s", "a", "m", "e">> (* same *)
          :> <<"T", "h", "e", " ", "%", "s", " ", "a", "n", "d", " ", "%", "s", " ", "m", "u", "s", "t", " ", "m", "a", "t", "c", "h", ".">> (* The %s and %s must match. *))
    @@ (<<"v", "a", "l", "u", "e">> (* value *)
          :> <<"T", "h", "e", " ", "%", "s", " ", "m", "u", "s", "t", " ", "%", "s", ".">> (* The %s must %s. *))
    @@ (<<"v", "a", "l", "u", "e", "_", "b", "e", "t", "w", "e", "e", "n">> (* value_between *)
          :> <<"T", "h", "e", " ", "%", "s", " ", "m", "u", "s", "t", " ", "b", "e", " ", "b", "e", "t", "w", "e", "e", "n", " ", "%", "s", " ", "a", "n", "d", " ", "%", "s", ".">> (* The %s must be between %s and %s. *))

\* vFn(fieldName, fieldValue, inputs, params): the built-ins, and the two
\* constant predicates a caller registers (the README's hello returns false)
Invoke(fn, name, value, ins, params) ==
    CASE fn = "validateAccepted" -> validateAccepted(name, value, ins, params)
      [] fn = "validateAlpha" -> validateAlpha(name, value, ins, params)
      [] fn = "validateAlphaDash" -> validateAlphaDash(name, value, ins, params)
      [] fn = "validateAlphaNumeric" -> validateAlphaNumeric(name, value, ins, params)
      [] fn = "validateBoolean" -> validateBoolean(name, value, ins, params)
      [] fn = "validateChars" -> validateChars(name, value, ins, params)
      [] fn = "validateCharsBetween" -> validateCharsBetween(name, value, ins, params)
      [] fn = "validateConfirmed" -> validateConfirmed(name, value, ins, params)
      [] fn = "validateDifferent" -> validateDifferent(name, value, ins, params)
      [] fn = "validateDigits" -> validateDigits(name, value, ins, params)
      [] fn = "validateDigitsBetween" -> validateDigitsBetween(name, value, ins, params)
      [] fn = "validateEmail" -> validateEmail(name, value, ins, params)
      [] fn = "validateIn" -> validateIn(name, value, ins, params)
      [] fn = "validateInteger" -> validateInteger(name, value, ins, params)
      [] fn = "validateMaxChars" -> validateMaxChars(name, value, ins, params)
      [] fn = "validateMaxDigits" -> validateMaxDigits(name, value, ins, params)
      [] fn = "validateMaxValue" -> validateMaxValue(name, value, ins, params)
      [] fn = "validateMinChars" -> validateMinChars(name, value, ins, params)
      [] fn = "validateMinDigits" -> validateMinDigits(name, value, ins, params)
      [] fn = "validateMinValue" -> validateMinValue(name, value, ins, params)
      [] fn = "validateNotIn" -> validateNotIn(name, value, ins, params)
      [] fn = "validateNumeric" -> validateNumeric(name, value, ins, params)
      [] fn = "validateRegex" -> validateRegex(name, value, ins, params)
      [] fn = "validateRequired" -> validateRequired(name, value, ins, params)
      [] fn = "validateSame" -> validateSame(name, value, ins, params)
      [] fn = "validateValue" -> validateValue(name, value, ins, params)
      [] fn = "validateValueBetween" -> validateValueBetween(name, value, ins, params)
      [] fn = "alwaysFalse" -> "fail"
      [] fn = "alwaysTrue" -> "pass"

GenericMessage(fieldName) == Sprintf(<<"T", "h", "e", " ", "%", "s", " ", "i", "s", " ", "i", "n", "v", "a", "l", "i", "d", ".">> (* The %s is invalid. *), <<fieldName>>)

\* a buildErrorMessage that does not compare the placeholder count
buildErrorMessage_NoCount(fieldName, rule, params) ==
    IF ~Exists(messages, rule)
    THEN GenericMessage(fieldName)
    ELSE Sprintf(messages[rule], <<fieldName>> \o params)

buildErrorMessage(fieldName, rule, params) ==
    IF ~Exists(messages, rule) \/ CountPlaceholders(messages[rule]) # 1 + Len(params)
    THEN GenericMessage(fieldName)
    ELSE Sprintf(messages[rule], <<fieldName>> \o params)

\* a parser that splits a token on its first colon only
splitRuleParams_FirstColon(ruleWithParams) ==
    IF \A i \in 1..Len(ruleWithParams) : ruleWithParams[i] # ":"
    THEN [rule |-> ruleWithParams, params |-> <<>>]
    ELSE [rule |-> SubSeq(ruleWithParams, 1, FirstIndex(ruleWithParams, ":") - 1),
          params |-> Split(Tail0(ruleWithParams, FirstIndex(ruleWithParams, ":")), ",")]

splitRuleParams(ruleWithParams) ==
    LET split == Split(ruleWithParams, ":")
    IN  IF Len(split) = 2
        THEN [rule |-> split[1], params |-> Split(split[2], ",")]
        ELSE [rule |-> ruleWithParams, params |-> <<>>]

\* a Validate that dispatches on the built-in table first
Lookup_Builtin(rule) ==
    IF rule \in DOMAIN BuiltinValidators THEN BuiltinValidators[rule] ELSE validators[rule]

\* which predicate Validate runs for a rule name: validators[rule]
Lookup(rule) == validators[rule]

\* the state of one Validate call: the local messages map, the predicate calls
\* made so far, and whether a predicate has panicked (the call is then over)
NewRun == [panicked |-> FALSE, msgs |-> <<>>, calls |-> <<>>]

\* lines 315-318: the predicate has returned r (or panicked)
Called(run, fieldName, rp, fn, r) ==
    [panicked |-> r = "panic",
     msgs |-> IF r = "fail"
              THEN (fieldName :> buildErrorMessage(fieldName, rp.rule, rp.params)) @@ run.msgs
              ELSE run.msgs,
     calls |-> Append(run.calls, [field |-> fieldName, rule |-> rp.rule, params |-> rp.params,
                                  fn |-> fn, result |-> r])]

\* a Validate that treats a rule name that is not registered as a failure
Dispatch_UnknownFails(run, fieldName, fieldValue, ins, rp) ==
    IF Exists(validators, rp.rule)
    THEN Called(run, fieldName, rp, Lookup(rp.rule),
                Invoke(Lookup(rp.rule), fieldName, fieldValue, ins, rp.params))
    ELSE [run EXCEPT !.msgs = (fieldName :> GenericMessage(fieldName)) @@ run.msgs]

\* lines 313-319: a rule name that is not registered is passed over
Dispatch(run, fieldName, fieldValue, ins, rp) ==
    IF Exists(validators, rp.rule)
    THEN Called(run, fieldName, rp, Lookup(rp.rule),
                Invoke(Lookup(rp.rule), fieldName, fieldValue, ins, rp.params))
    ELSE run

\* one iteration of the loop of lines 311-320, on the token fieldRules[i]
RuleStep(run, fieldName, fieldValue, ins, token) ==
    Dispatch(run, fieldName, fieldValue, ins, splitRuleParams(token))

RECURSIVE RuleLoop(_, _, _, _, _, _)
RuleLoop(run, fieldName, fieldValue, ins, fieldRules, i) ==
    IF run.panicked \/ i > Len(fieldRules) THEN run
    ELSE RuleLoop(RuleStep(run, fieldName, fieldValue, ins, fieldRules[i]),
                  fieldName, fieldValue, ins, fieldRules, i + 1)

\* a Validate that does not test the value for emptiness
FieldStep_EvaluatesEmpty(run, fieldName, ins, rls) ==
    LET fieldExists == Exists(ins, fieldName)
        fieldRules == Split(rls[fieldName], "|")
        fieldIsRequired == stringInSlice(<<"r", "e", "q", "u", "i", "r", "e", "d">> (* required *), fieldRules)
    IN  IF fieldIsRequired /\ ~fieldExists
        THEN [run EXCEPT !.msgs = (fieldName :> buildErrorMessage(fieldName, <<"r", "e", "q", "u", "i", "r", "e", "d">> (* required *), <<>>))
                                  @@ run.msgs]
        ELSE RuleLoop(run, fieldName, Get(ins, fieldName), ins, fieldRules, 1)

\* the body of the loop over rules, lines 298-322
FieldStep(run, fieldName, ins, rls) ==
    LET fieldValue == Get(ins, fieldName)
        fieldExists == Exists(ins, fieldName)
        fieldRules == Split(rls[fieldName], "|")
        fieldIsRequired == stringInSlice(<<"r", "e", "q", "u", "i", "r", "e", "d">> (* required *), fieldRules)
        alwaysValidate == stringInSlice(<<"a", "l", "w", "a", "y", "s">> (* always *), fieldRules)
    IN  IF fieldIsRequired /\ ~fieldExists
        THEN [run EXCEPT !.msgs = (fieldName :> buildErrorMessage(fieldName, <<"r", "e", "q", "u", "i", "r", "e", "d">> (* required *), <<>>))
                                  @@ run.msgs]
        ELSE IF fieldIsRequired \/ alwaysValidate \/ (~fieldIsRequired /\ fieldValue # <<>>)
        THEN RuleLoop(run, fieldName, fieldValue, ins, fieldRules, 1)
        ELSE run

RECURSIVE FieldLoop(_, _, _, _, _)
FieldLoop(run, ins, rls, ord, k) ==
    IF run.panicked \/ k > Len(ord) THEN run
    ELSE FieldLoop(FieldStep(run, ord[k], ins, rls), ins, rls, ord, k + 1)

\* line 324.  A call that panics returns nothing: success and msgs are then no values.
Return(run) ==
    [panicked |-> run.panicked,
     success |-> ~run.panicked /\ DOMAIN run.msgs = {},
     msgs |-> IF run.panicked THEN <<>> ELSE run.msgs,
     calls |-> run.calls]

\* Validate(inputs, rules) when the range over rules visits the fields in the order ord
Validate(ins, rls, ord) == Return(FieldLoop(NewRun, ins, rls, ord, 1))

\* the orders in which Go may range over a map with these keys
Orders(keys) ==
    {s \in [1..Cardinality(keys) -> keys] : \A i, j \in DOMAIN s : i # j => s[i] # s[j]}

-----------------------------------------------------------------------------
(* The calls the model makes *)

RECURSIVE Xs(_)
Xs(n) == IF n = 0 THEN <<>> ELSE <<"x">> \o Xs(n - 1)

FieldName == <<"n", "a", "m", "e">> (* name *)
FieldAge == <<"a", "g", "e">> (* age *)

\* a map with some of the given keys, each bound to some element of vals
Maps(keys, vals) == UNION {[d -> vals] : d \in SUBSET keys}

\* calls with one field: rule strings of every shape, on an absent field, the
\* empty string and values of the spec's scenarios
RuleStrings ==
    {<<"r", "e", "q", "u", "i", "r", "e", "d">> (* required *),
     <<"r", "e", "q", "u", "i", "r", "e", "d", "|", "a", "l", "p", "h", "a">> (* required|alpha *),
     <<"a", "l", "p", "h", "a">> (* alpha *),
     <<"e", "m", "a", "i", "l">> (* email *),
     <<"e", "m", "a", "i", "l", "|", "m", "a", "x", "_", "c", "h", "a", "r", "s", ":", "5">> (* email|max_chars:5 *),
     <<"m", "i", "n", "_", "c", "h", "a", "r", "s", ":", "3">> (* min_chars:3 *),
     <<"m", "a", "x", "_", "c", "h", "a", "r", "s", ":", "5">> (* max_chars:5 *),
     <<"m", "i", "n", "_", "c", "h", "a", "r", "s">> (* min_chars *),
     <<"m", "i", "n", "_", "c", "h", "a", "r", "s", ":", "3", ",", "4">> (* min_chars:3,4 *),
     <<"i", "n", "t", "e", "g", "e", "r", "|", "m", "i", "n", "_", "v", "a", "l", "u", "e", ":", "0">> (* integer|min_value:0 *),
     <<"m", "i", "n", "_", "v", "a", "l", "u", "e", ":", "z", "e", "r", "o">> (* min_value:zero *),
     <<"a", "l", "p", "h", "a", "|", "m", "i", "n", "_", "c", "h", "a", "r", "s", ":", "3", "|", "i", "n", "t", "e", "g", "e", "r">> (* alpha|min_chars:3|integer *),
     <<"z", "z", "z">> (* zzz *),
     <<"z", "z", "z", "|", "n", "o", "p", "e", ":", "1">> (* zzz|nope:1 *),
     <<"a", "l", "w", "a", "y", "s">> (* always *),
     <<"a", "l", "w", "a", "y", "s", "|", "a", "l", "p", "h", "a">> (* always|alpha *),
     <<"r", "e", "g", "e", "x", ":", "a", ":", "b">> (* regex:a:b *),
     <<"h", "e", "l", "l", "o">> (* hello *),
     <<"h", "e", "l", "l", "o", ":", "p">> (* hello:p *),
     <<"h", "e", "l", "l", "o", ":", "p", ",", "q">> (* hello:p,q *),
     <<"a", "l", "w", "a", "y", "s", "|", "h", "e", "l", "l", "o">> (* always|hello *),
     <<"r", "e", "q", "u", "i", "r", "e", "d", "|", "e", "m", "a", "i", "l", "|", "h", "e", "l", "l", "o">> (* required|email|hello *),
     <<"a", "l", "p", "h", "a", "|", "r", "e", "g", "e", "x", ":", "a", ":", "b">> (* alpha|regex:a:b *),
     <<"r", "e", "g", "e", "x", ":", "o", "b">> (* regex:ob *),
     <<"i", "n", ":">> (* in: *),
     <<"r", "e", "g", "e", "x", ":", ":">> (* regex:: *)}

Values ==
    {<<>>,
     <<"B", "o", "b", "1", "2", "3">> (* Bob123 *),
     <<"-", "5">> (* -5 *),
     <<"B", "o", "b">> (* Bob *),
     <<"a", "@", "b", ".", "c", "o">> (* a@b.co *)}

GeneralCalls ==
    {[inputs |-> i, rules |-> (FieldName :> r)] :
        i \in Maps({FieldName}, Values), r \in RuleStrings}

\* calls on the length rules, with values of every length up to MaxLen
CharsRuleStrings ==
    {<<"c", "h", "a", "r", "s", "_", "b", "e", "t", "w", "e", "e", "n", ":", "3", ",", "6">> (* chars_between:3,6 *),
     <<"m", "i", "n", "_", "c", "h", "a", "r", "s", ":", "3">> (* min_chars:3 *),
     <<"m", "a", "x", "_", "c", "h", "a", "r", "s", ":", "5">> (* max_chars:5 *),
     <<"c", "h", "a", "r", "s", ":", "3">> (* chars:3 *)}

CharsCalls ==
    {[inputs |-> (FieldName :> Xs(n)), rules |-> (FieldName :> r)] :
        n \in 0..MaxLen, r \in CharsRuleStrings}

\* calls on the membership rules
InRuleStrings ==
    {<<"i", "n", ":", "r", "e", "d", ",", "g", "r", "e", "e", "n", ",", "b", "l", "u", "e">> (* in:red,green,blue *),
     <<"n", "o", "t", "_", "i", "n", ":", "r", "e", "d", ",", "g", "r", "e", "e", "n", ",", "b", "l", "u", "e">> (* not_in:red,green,blue *)}

InValues ==
    {<<"r", "e", "d">> (* red *),
     <<"g", "r", "e", "e", "n">> (* green *),
     <<"b", "l", "u", "e">> (* blue *),
     <<"p", "u", "r", "p", "l", "e">> (* purple *),
     <<"R", "e", "d">> (* Red *),
     <<>>}

InCalls ==
    {[inputs |-> i, rules |-> (FieldName :> r)] :
        i \in Maps({FieldName}, InValues),
        r \in InRuleStrings}

\* calls with two fields
PairRuleStrings ==
    {<<"r", "e", "q", "u", "i", "r", "e", "d", "|", "a", "l", "p", "h", "a">> (* required|alpha *),
     <<"i", "n", "t", "e", "g", "e", "r", "|", "m", "i", "n", "_", "v", "a", "l", "u", "e", ":", "0">> (* integer|min_value:0 *),
     <<"m", "i", "n", "_", "c", "h", "a", "r", "s", ":", "3">> (* min_chars:3 *)}
PairValues == {<<"B", "o", "b", "1", "2", "3">> (* Bob123 *), <<"-", "5">> (* -5 *)}

PairCalls ==
    {[inputs |-> i, rules |-> r] :
        i \in Maps({FieldName, FieldAge}, PairValues),
        r \in [{FieldName, FieldAge} -> PairRuleStrings]}

Calls == GeneralCalls \cup CharsCalls \cup InCalls \cup PairCalls

\* templates a caller registers: the README's, one with two placeholders, one
\* with another verb before its %s, one with an escaped percent sign
Templates ==
    {<<"H", "e", "l", "l", "o", " ", "i", "n", "p", "u", "t", ":", " ", "%", "s">> (* Hello input: %s *),
     <<"%", "s", " ", "g", "o", "t", " ", "%", "s">> (* %s got %s *),
     <<"%", "d", "%", "s">> (* %d%s *),
     <<"%", "%", "s">> (* %%s *)}

\* the AddValidator calls of the model: a new rule, and predicates registered
\* under the names of two built-ins
Registrations ==
    ({<<"h", "e", "l", "l", "o">> (* hello *)} \X {"alwaysFalse"} \X Templates)
    \cup {<<<<"h", "e", "l", "l", "o">> (* hello *), "alwaysTrue",
            <<"H", "e", "l", "l", "o", " ", "%", "s">> (* Hello %s *)>>,
          <<<<"r", "e", "q", "u", "i", "r", "e", "d">> (* required *), "alwaysTrue",
            <<"%", "s", " ", "i", "s", " ", "n", "e", "e", "d", "e", "d">> (* %s is needed *)>>,
          <<<<"a", "l", "p", "h", "a">> (* alpha *), "alwaysTrue",
            <<"%", "s", " ", "g", "o", "t", " ", "%", "s">> (* %s got %s *)>>}

-----------------------------------------------------------------------------
(* The state machine: a program that registers rules and validates one      *)
(* request, the request and the rule set being its input                    *)

NoResult ==
    /\ outcome' = "none"
    /\ success' = FALSE
    /\ errors' = <<>>
    /\ calls' = <<>>

Init ==
    /\ validators = BuiltinValidators
    /\ messages = BuiltinMessages
    /\ lastAdd = <<>>
    /\ \E c \in Calls : \E ord \in Orders(DOMAIN c.rules) :
            inputs = c.inputs /\ rules = c.rules /\ order = ord
    /\ outcome = "none"
    /\ success = FALSE
    /\ errors = <<>>
    /\ calls = <<>>

\* what an earlier Validate returned is dropped: it was computed from the old maps
AddValidator(name, fn, message) ==
    /\ validators' = (name :> fn) @@ validators
    /\ messages' = (name :> message) @@ messages
    /\ lastAdd' = <<name, fn, message>>
    /\ NoResult
    /\ UNCHANGED <<inputs, rules, order>>

ValidateCall ==
    \E r \in {Validate(inputs, rules, order)} :
        /\ outcome' = IF r.panicked THEN "panic" ELSE "returned"
        /\ success' = r.success
        /\ errors' = r.msgs
        /\ calls' = r.calls
        /\ UNCHANGED <<validators, messages, lastAdd, inputs, rules, order>>

Register == \E reg \in Registrations : AddValidator(reg[1], reg[2], reg[3])

Next == Register \/ ValidateCall

Spec == Init /\ [][Next]_vars
-----------------------------------------------------------------------------
(* Vocabulary of the properties *)

Tokens(f) == Split(rules[f], "|")
HasToken(f, token) == \E i \in 1..Len(Tokens(f)) : Tokens(f)[i] = token
Submitted(f) == IF f \in DOMAIN inputs THEN inputs[f] ELSE <<>>
Absent(f) == f \notin DOMAIN inputs

\* the predicate calls Validate made for field f, in order
RECURSIVE CallsOf(_, _)
CallsOf(cs, f) ==
    IF cs = <<>> THEN <<>>
    ELSE IF Head(cs).field = f THEN <<Head(cs)>> \o CallsOf(Tail(cs), f)
    ELSE CallsOf(Tail(cs), f)

\* the message of field f in a messages map, <<>> if it has none
MessageOf(m, f) == IF f \in DOMAIN m THEN <<m[f]>> ELSE <<>>

RequiredAbsent(f) == HasToken(f, <<"r", "e", "q", "u", "i", "r", "e", "d">> (* required *)) /\ Absent(f)
Skipped(f) == ~HasToken(f, <<"r", "e", "q", "u", "i", "r", "e", "d">> (* required *)) /\ ~HasToken(f, <<"a", "l", "w", "a", "y", "s">> (* always *)) /\ Submitted(f) = <<>>

-----------------------------------------------------------------------------
(* C1 *)

\* C1: whatever the values and the rule set, Validate returns a (success,
\* messages) result: no panic escapes the call.
C1_NoPanicEscapes == outcome # "panic"

-----------------------------------------------------------------------------
(* C2 *)

\* C2: for every field that has the token "required" and is absent from the
\* values, Validate returns success = false and the field's message is the one
\* built for rule "required" with no parameters; none of the field's rules is
\* evaluated, whatever the other fields are.
C2_RequiredAbsentFails ==
    outcome # "none" =>
        \A f \in DOMAIN rules :
            RequiredAbsent(f) =>
                /\ outcome = "returned"
                /\ ~success
                /\ MessageOf(errors, f) = <<buildErrorMessage(f, <<"r", "e", "q", "u", "i", "r", "e", "d">> (* required *), <<>>)>>
                /\ CallsOf(calls, f) = <<>>

-----------------------------------------------------------------------------
(* C3 *)

\* C3: a field with neither "required" nor "always" in its rule string whose
\* value is absent or the empty string has no rule evaluated and no message in
\* the result; a rule set made only of such fields yields success = true and an
\* empty messages map.
C3_OptionalEmptySkipped ==
    outcome # "none" =>
        /\ \A f \in DOMAIN rules :
              Skipped(f) => CallsOf(calls, f) = <<>> /\ f \notin DOMAIN errors
        /\ (\A f \in DOMAIN rules : Skipped(f)) =>
              outcome = "returned" /\ success /\ DOMAIN errors = {}

\* the spec's example: "email|max_chars:5" on an absent optional field passes
C3_Witness ==
    /\ outcome = "returned"
    /\ rules = (FieldName :> <<"e", "m", "a", "i", "l", "|", "m", "a", "x", "_", "c", "h", "a", "r", "s", ":", "5">> (* email|max_chars:5 *))
    /\ inputs = <<>>
    /\ success
    /\ DOMAIN errors = {}

-----------------------------------------------------------------------------
(* C4 *)

Custom == {"alwaysTrue", "alwaysFalse"}
Parsed(f) == [i \in 1..Len(Tokens(f)) |-> splitRuleParams(Tokens(f)[i])]
IsRegistered(rp) == rp.rule \in DOMAIN validators
\* the rule tokens of f whose name is registered, in declaration order
RegisteredTokens(f) == SelectSeq(Parsed(f), IsRegistered)
Signature(cs) == [i \in 1..Len(cs) |-> [rule |-> cs[i].rule, params |-> cs[i].params]]
IsPrefix(s, t) == Len(s) <= Len(t) /\ SubSeq(t, 1, Len(s)) = s
Evaluated(f) == ~RequiredAbsent(f) /\ ~Skipped(f)
\* the rule string of f is the one token of a rule registered by AddValidator
OnlyCustomRule(f) ==
    /\ Len(Parsed(f)) = 1
    /\ IsRegistered(Parsed(f)[1])
    /\ validators[Parsed(f)[1].rule] \in Custom

-----------------------------------------------------------------------------
(* C5 *)

\* rule tokens naming no registered rule
UnknownTokens == {t \in {<<"z", "z", "z">> (* zzz *), <<"n", "o", "p", "e", ":", "1">> (* nope:1 *), <<"r", "e", "g", "e", "x", ":", "a", ":", "b">> (* regex:a:b *), <<"a", "l", "w", "a", "y", "s">> (* always *), <<"a", "l", "w", "a", "y", "s", ":", "1">> (* always:1 *)} :
                      splitRuleParams(t).rule \notin DOMAIN validators}

\* the rule set with token t added to the rule string of field f, first or last
WithTokenFirst(f, t) == [rules EXCEPT ![f] = t \o <<"|">> \o rules[f]]
WithTokenLast(f, t) == [rules EXCEPT ![f] = rules[f] \o <<"|">> \o t]

\* what the caller of Validate gets
Result(v) == <<v.panicked, v.success, v.msgs>>

SameResult(rls) == Result(Validate(inputs, rls, order)) = <<outcome = "panic", success, errors>>

OnlyUnknownRules(f) == \A i \in 1..Len(Parsed(f)) : ~IsRegistered(Parsed(f)[i])

\* C5 as stated: a token whose rule name is not registered has no effect: a
\* field of unregistered rule names only gets no message, and adding an
\* unregistered rule name to any rule string changes neither the messages nor
\* the success flag.
C5_UnknownRuleNoEffect ==
    outcome # "none" =>
        \A f \in DOMAIN rules :
            /\ OnlyUnknownRules(f) => f \notin DOMAIN errors /\ CallsOf(calls, f) = <<>>
            /\ \A t \in UnknownTokens :
                  SameResult(WithTokenFirst(f, t)) /\ SameResult(WithTokenLast(f, t))

\* C5 as amended: the same, for every unregistered token other than the
\* keyword "always".
C5_UnknownRuleNoEffectButAlways ==
    outcome # "none" =>
        \A f \in DOMAIN rules :
            /\ OnlyUnknownRules(f) => f \notin DOMAIN errors /\ CallsOf(calls, f) = <<>>
            /\ \A t \in UnknownTokens \ {<<"a", "l", "w", "a", "y", "s">> (* always *)} :
                  SameResult(WithTokenFirst(f, t)) /\ SameResult(WithTokenLast(f, t))

\* the README's rule string while "hello" is not registered: email fails, hello is passed over
C5_Witness ==
    /\ outcome = "returned"
    /\ <<"h", "e", "l", "l", "o">> (* hello *) \notin DOMAIN validators
    /\ rules = (FieldName :> <<"r", "e", "q", "u", "i", "r", "e", "d", "|", "e", "m", "a", "i", "l", "|", "h", "e", "l", "l", "o">> (* required|email|hello *))
    /\ inputs = (FieldName :> <<"B", "o", "b", "1", "2", "3">> (* Bob123 *))
    /\ Len(calls) = 2
    /\ errors = (FieldName :> <<"T", "h", "e", " ", "n", "a", "m", "e", " ", "m", "u", "s", "t", " ", "b", "e", " ", "a", " ", "v", "a", "l", "i", "d", " ", "e", "m", "a", "i", "l", " ", "a", "d", "d", "r", "e", "s", "s", ".">> (* The name must be a valid email address. *))

-----------------------------------------------------------------------------
(* C6 *)

\* C6: under the rule string "chars_between:3,6" a field passes (no message)
\* for every value of length 3, 4, 5 or 6 and fails (a message, success =
\* false) for values of length 2 and of length 7.
C6_CharsBetweenThreeAndSix ==
    (/\ outcome # "none"
     /\ rules = (FieldName :> <<"c", "h", "a", "r", "s", "_", "b", "e", "t", "w", "e", "e", "n", ":", "3", ",", "6">> (* chars_between:3,6 *))
     /\ validators[<<"c", "h", "a", "r", "s", "_", "b", "e", "t", "w", "e", "e", "n">> (* chars_between *)] = "validateCharsBetween"
     /\ Len(Submitted(FieldName)) \in 2..7) =>
        /\ outcome = "returned"
        /\ Len(Submitted(FieldName)) \in 3..6 => FieldName \notin DOMAIN errors
        /\ Len(Submitted(FieldName)) \in {2, 7} => FieldName \in DOMAIN errors /\ ~success

-----------------------------------------------------------------------------
(* C7 *)

InRedGreenBlue ==
    /\ outcome # "none"
    /\ rules = (FieldName :> <<"i", "n", ":", "r", "e", "d", ",", "g", "r", "e", "e", "n", ",", "b", "l", "u", "e">> (* in:red,green,blue *))
    /\ validators[<<"i", "n">> (* in *)] = "validateIn"

\* C7 as stated: under "in:red,green,blue" a submitted value is accepted (no
\* message) exactly when it is "red", "green" or "blue"; "purple" and the
\* empty string are rejected (a message, success = false).
C7_InAcceptsExactlyTheList ==
    (InRedGreenBlue /\ ~Absent(FieldName)) =>
        /\ outcome = "returned"
        /\ FieldName \notin DOMAIN errors <=> Submitted(FieldName) \in {<<"r", "e", "d">> (* red *), <<"g", "r", "e", "e", "n">> (* green *), <<"b", "l", "u", "e">> (* blue *)}
        /\ FieldName \in DOMAIN errors => ~success

\* C7 as amended: under "in:red,green,blue" a non-empty value is accepted
\* exactly when it is "red", "green" or "blue" and every other non-empty value
\* ("purple") is rejected with the generic message (the template of "in" holds one
\* placeholder, the rule has three parameters); the empty string and an absent
\* field get no message, because Validate skips an optional empty field without
\* running the rule, although the predicate itself rejects "".
C7_InAcceptsTheListAndSkipsEmpty ==
    InRedGreenBlue =>
        /\ outcome = "returned"
        /\ FieldName \notin DOMAIN errors
               <=> Submitted(FieldName) \in {<<"r", "e", "d">> (* red *), <<"g", "r", "e", "e", "n">> (* green *), <<"b", "l", "u", "e">> (* blue *), <<>>}
        /\ success <=> FieldName \notin DOMAIN errors
        /\ FieldName \in DOMAIN errors =>
               errors[FieldName] = <<"T", "h", "e", " ", "n", "a", "m", "e", " ", "i", "s", " ", "i", "n", "v", "a", "l", "i", "d", ".">> (* The name is invalid. *)
        /\ (Submitted(FieldName) = <<>>) <=> (calls = <<>>)
        /\ validateIn(FieldName, <<>>, inputs, <<<<"r", "e", "d">> (* red *), <<"g", "r", "e", "e", "n">> (* green *), <<"b", "l", "u", "e">> (* blue *)>>) = "fail"

C7_Witness ==
    /\ InRedGreenBlue
    /\ outcome = "returned"
    /\ inputs = (FieldName :> <<>>)
    /\ success
    /\ calls = <<>>

-----------------------------------------------------------------------------
(* C8 *)

\* the failures of field f in the call: the failing predicate calls, and before
\* them the "required" failure of an absent required field
RECURSIVE FailedCalls(_)
FailedCalls(cs) ==
    IF cs = <<>> THEN <<>>
    ELSE IF Head(cs).result = "fail"
    THEN <<[rule |-> Head(cs).rule, params |-> Head(cs).params]>> \o FailedCalls(Tail(cs))
    ELSE FailedCalls(Tail(cs))

Failures(f) ==
    IF RequiredAbsent(f) THEN <<[rule |-> <<"r", "e", "q", "u", "i", "r", "e", "d">> (* required *), params |-> <<>>]>>
    ELSE FailedCalls(CallsOf(calls, f))

LastFailure(f) == Failures(f)[Len(Failures(f))]

\* the template with its "%s" placeholders replaced, left to right, by args
RECURSIVE Substitute(_, _)
Substitute(template, args) ==
    IF template = <<>> THEN <<>>
    ELSE IF Len(template) >= 2 /\ template[1] = "%" /\ template[2] = "s" /\ args # <<>>
    THEN Head(args) \o Substitute(Tail0(template, 2), Tail(args))
    ELSE <<template[1]>> \o Substitute(Tail0(template, 1), args)

\* every "%" of the template begins a "%s"
PlainTemplate(template) ==
    \A i \in 1..Len(template) :
        template[i] = "%" => i < Len(template) /\ template[i + 1] = "s"

Mismatch(rule, params) ==
    rule \notin DOMAIN messages \/ CountPlaceholders(messages[rule]) # 1 + Len(params)

-----------------------------------------------------------------------------
(* C9 *)

\* C9: in a field it evaluates, Validate runs every registered rule, left to
\* right, also after one has failed, and the result holds for the field the
\* message of the last failing rule and no other; so the spec's scenario fails
\* with the alpha message for name and the min_value message for age.
C9_AllRulesRunLastFailureWins ==
    outcome # "none" =>
        /\ \A f \in DOMAIN rules :
              Evaluated(f) =>
                  /\ outcome = "returned"
                  /\ Signature(CallsOf(calls, f)) = RegisteredTokens(f)
                  /\ MessageOf(errors, f) =
                        IF Failures(f) = <<>> THEN <<>>
                        ELSE <<buildErrorMessage(f, LastFailure(f).rule, LastFailure(f).params)>>
        /\ (/\ rules = (FieldName :> <<"r", "e", "q", "u", "i", "r", "e", "d", "|", "a", "l", "p", "h", "a">> (* required|alpha *)) @@ (FieldAge :> <<"i", "n", "t", "e", "g", "e", "r", "|", "m", "i", "n", "_", "v", "a", "l", "u", "e", ":", "0">> (* integer|min_value:0 *))
            /\ inputs = (FieldName :> <<"B", "o", "b", "1", "2", "3">> (* Bob123 *)) @@ (FieldAge :> <<"-", "5">> (* -5 *))
            /\ validators = BuiltinValidators /\ messages = BuiltinMessages) =>
              /\ ~success
              /\ errors = (FieldName :> <<"T", "h", "e", " ", "n", "a", "m", "e", " ", "m", "a", "y", " ", "o", "n", "l", "y", " ", "c", "o", "n", "t", "a", "i", "n", " ", "l", "e", "t", "t", "e", "r", "s", ".">> (* The name may only contain letters. *))
                           @@ (FieldAge :> <<"T", "h", "e", " ", "a", "g", "e", " ", "m", "u", "s", "t", " ", "b", "e", " ", "g", "r", "e", "a", "t", "e", "r", " ", "t", "h", "a", "n", " ", "0", ".">> (* The age must be greater than 0. *))

-----------------------------------------------------------------------------
(* C10 *)

\* Validate on the rule of field f alone
Alone(f) == Validate(inputs, (f :> rules[f]), <<f>>)

\* C10: the result of Validate is the same in every iteration order of the rule
\* set, and the message of a field, or its absence, is a function of the
\* field's rule string, the values and the registry: it is what Validate gives
\* the field when the rule set holds that field alone.
C10_FieldsAreIndependent ==
    outcome # "none" =>
        /\ \A ord \in Orders(DOMAIN rules) :
              Result(Validate(inputs, rules, ord)) = <<outcome = "panic", success, errors>>
        /\ \A f \in DOMAIN rules :
              <<Alone(f).panicked, MessageOf(Alone(f).msgs, f)>>
                  = <<outcome = "panic", MessageOf(errors, f)>>

-----------------------------------------------------------------------------
(* C11 *)

\* the positions of character ch in text, and the k-th of them from the left
Positions(text, ch) == {i \in 1..Len(text) : text[i] = ch}
NthPosition(text, ch, k) ==
    CHOOSE i \in Positions(text, ch) : Cardinality({j \in Positions(text, ch) : j <= i}) = k

\* the pieces of text between its commas, in order; one piece more than commas
PieceStart(text, k) == IF k = 1 THEN 1 ELSE NthPosition(text, ",", k - 1) + 1
PieceEnd(text, k) ==
    IF k = Cardinality(Positions(text, ",")) + 1 THEN Len(text) ELSE NthPosition(text, ",", k) - 1
CommaList(text) ==
    [k \in 1..(Cardinality(Positions(text, ",")) + 1) |->
        SubSeq(text, PieceStart(text, k), PieceEnd(text, k))]

\* what the parser is to return for one token, by its number of colons
ExpectedParse(token) ==
    IF Cardinality(Positions(token, ":")) = 1
    THEN [rule |-> SubSeq(token, 1, NthPosition(token, ":", 1) - 1),
          params |-> CommaList(SubSeq(token, NthPosition(token, ":", 1) + 1, Len(token)))]
    ELSE [rule |-> token, params |-> <<>>]

\* a token of two or more colons is passed over; any other token is run when
\* the name in front of its parameters is registered
IsRun(token) ==
    /\ Cardinality(Positions(token, ":")) < 2
    /\ ExpectedParse(token).rule \in DOMAIN validators
ExpectedRuns(f) ==
    [i \in 1..Len(SelectSeq(Tokens(f), IsRun)) |-> ExpectedParse(SelectSeq(Tokens(f), IsRun)[i])]

\* C11: splitRuleParams returns, for a token without a colon, the token and no
\* parameters; for a token of exactly one colon, the text before the colon and
\* the text after it split on every comma, in order; for a token of two or more
\* colons, the whole token and no parameters.  Validate therefore passes over
\* a token such as "regex:a:b": the predicates it runs for an evaluated field
\* are those of the other tokens whose name is registered, in declaration
\* order, with the parameters above (all of them when the call returns).
C11_ParserCases ==
    \A f \in DOMAIN rules :
        /\ \A i \in 1..Len(Tokens(f)) :
              splitRuleParams(Tokens(f)[i]) = ExpectedParse(Tokens(f)[i])
        /\ outcome # "none" =>
              /\ IsPrefix(Signature(CallsOf(calls, f)), ExpectedRuns(f))
              /\ (outcome = "returned" /\ Evaluated(f)) =>
                    Signature(CallsOf(calls, f)) = ExpectedRuns(f)

\* "alpha|regex:a:b" on "Bob123": alpha is run and fails, and although "regex"
\* is registered the token "regex:a:b" is passed over
C11_Witness ==
    /\ outcome = "returned"
    /\ rules = (FieldName :> <<"a", "l", "p", "h", "a", "|", "r", "e", "g", "e", "x", ":", "a", ":", "b">> (* alpha|regex:a:b *))
    /\ inputs = (FieldName :> <<"B", "o", "b", "1", "2", "3">> (* Bob123 *))
    /\ <<"r", "e", "g", "e", "x">> (* regex *) \in DOMAIN validators
    /\ splitRuleParams(<<"r", "e", "g", "e", "x", ":", "a", ":", "b">> (* regex:a:b *)) = [rule |-> <<"r", "e", "g", "e", "x", ":", "a", ":", "b">> (* regex:a:b *), params |-> <<>>]
    /\ Len(calls) = 1
    /\ calls[1].rule = <<"a", "l", "p", "h", "a">> (* alpha *)
    /\ calls[1].result = "fail"
    /\ ~success

====
